---- MODULE Spec2Model ----
(***************************************************************************)
(* The replicated, persisted history store of screen_inu                   *)
(* (app/src-tauri/src/sync.rs): SyncManager over a loro document and one   *)
(* backing file per store.                                                 *)
(*                                                                         *)
(* The loro document is an external crate.  It is modelled by what the     *)
(* calls made in sync.rs do to it: a document is the set of operations on  *)
(* the root map "history" it has seen; the value of a key is decided by    *)
(* the operation with the greatest (lamport, peer); deleting a key is such *)
(* an operation too; importing a snapshot adds the operations it holds.    *)
(***************************************************************************)
EXTENDS Integers, Sequences, FiniteSets, TLC

(***************************************************************************)
(* Bounds of the model.                                                    *)
(***************************************************************************)
\* operations on the map the replicas may apply in a run of Spec
MaxOps == 3
\* operations on the map the replicas may apply in a run of SpecDisk
MaxDiskOps == 2
\* operations on the map the replica may apply in a run of SpecList
MaxListOps == 3
\* peer ids a run may draw; every LoroDoc::new() draws a fresh one
MaxPeer == 3
\* operations applied by the threads of SpecManager
MaxMgrOps == 1
\* adds the two threads of SpecRace may make
MaxRaceOps == 3
\* adds the replica may make in a run of SpecStamp
MaxStampOps == 2
\* calls the threads issue, together, in a run of SpecLive
MaxCalls == 3
\* images of a perform_batch_ocr call
MaxImages == 2

(***************************************************************************)
(* 64-bit integers.  TLC computes with 32-bit integers, so an i64 is kept  *)
(* as sign and magnitude, the magnitude in three limbs of LimbBits bits:   *)
(* |t| = l2 * Base^2 + l1 * Base + l0.                                     *)
(***************************************************************************)
LimbBits == 22
Base == 2^LimbBits
\* significant bits of an f64 (item.timestamp as f64)
MantissaBits == 53
\* value bits of an i64 (pub timestamp: i64)
I64Bits == 63

RECURSIVE Log2Floor(_)
Log2Floor(n) == IF n <= 1 THEN 0 ELSE 1 + Log2Floor(n \div 2)

Int64(n) ==
  [neg |-> n < 0, l2 |-> 0, l1 |-> 0, l0 |-> IF n < 0 THEN 0 - n ELSE n]

\* 2^k as a magnitude, for 2 * LimbBits <= k
TwoPow(k) == [neg |-> FALSE, l2 |-> 2^(k - 2 * LimbBits), l1 |-> 0, l0 |-> 0]

I64Max ==
  [neg |-> FALSE, l2 |-> 2^(I64Bits - 2 * LimbBits) - 1, l1 |-> Base - 1,
   l0 |-> Base - 1]

I64Min == [TwoPow(I64Bits) EXCEPT !.neg = TRUE]

MagLess(a, b) ==
  \/ a.l2 < b.l2
  \/ a.l2 = b.l2 /\ a.l1 < b.l1
  \/ a.l2 = b.l2 /\ a.l1 = b.l1 /\ a.l0 < b.l0

\* a < b on i64 (the order behind b.timestamp.cmp(&a.timestamp))
I64Less(a, b) ==
  IF a.neg # b.neg THEN a.neg
  ELSE IF a.neg THEN MagLess(b, a) ELSE MagLess(a, b)

\* t as f64: exact below 2^53, otherwise rounded to 53 significant bits,
\* ties to even.  The result is integral and kept in the same limbs.
I64ToF64(t) ==
  IF t.l2 < 2^(MantissaBits - 2 * LimbBits) THEN t
  ELSE
    LET s    == 2 * LimbBits + Log2Floor(t.l2) - (MantissaBits - 1)
        ulp  == 2^s
        q    == t.l0 \div ulp
        rem  == t.l0 % ulp
        half == ulp \div 2
        up   == rem > half \/ (rem = half /\ q % 2 = 1)
        n0   == (IF up THEN q + 1 ELSE q) * ulp
        c0   == IF n0 >= Base THEN 1 ELSE 0
        n1   == t.l1 + c0
        c1   == IF n1 >= Base THEN 1 ELSE 0
    IN  [neg |-> t.neg, l2 |-> t.l2 + c1, l1 |-> n1 % Base, l0 |-> n0 % Base]

\* d as i64 for an integral d: saturating at the ends of the range
F64ToI64(d) ==
  IF ~d.neg /\ ~MagLess(d, TwoPow(I64Bits)) THEN I64Max
  ELSE IF d.neg /\ MagLess(TwoPow(I64Bits), d) THEN I64Min
  ELSE d

(***************************************************************************)
(* Inputs.                                                                 *)
(***************************************************************************)
Replicas == {"A", "B"}

HistoryItem(id, text, timestamp, lang) ==
  [id |-> id, text |-> text, timestamp |-> timestamp, lang |-> lang]

Dog   == HistoryItem("dog", "Dog", Int64(100), "eng")
Cat   == HistoryItem("cat", "Cat", Int64(200), "eng")
\* the same id as Dog with other fields; its timestamp is 2^53 + 1
Hund  == HistoryItem("dog", "Hund", [TwoPow(MantissaBits) EXCEPT !.l0 = 1], "deu")
Owl   == HistoryItem("owl", "Owl", Int64(300), "eng")
\* a fourth id; its timestamp ties with Cat's
Emu   == HistoryItem("emu", "Emu", Int64(200), "eng")
\* an item whose id is the empty string
Nameless == HistoryItem("", "Anon", Int64(400), "eng")

Items == {Dog, Cat, Hund}
Ids == {i.id : i \in Items}

PeerIds == 1..MaxPeer

VARIABLES
  doc,      \* doc[r]: the LoroDoc of replica r's SyncManager, NoDoc if none
  file,     \* file[r]: the bytes at replica r's file_path, NoFile if absent
  ret,      \* the last call: operation, replica, argument, result
  guard,    \* SYNC_MANAGER: the file_path of the manager it holds, or NoPath
  lock,     \* the thread that holds the mutex of SYNC_MANAGER, or NoThread
  pc,       \* pc[t]: the command thread t is in, and its position in it
  env,      \* whether SCREEN_INU_TEST_DIR is set
  acc,      \* the file-system accesses of the command in progress or last returned
  calls,    \* calls[t]: the calls thread t has issued that have not yet
            \* got the mutex, in order; thread t is blocked in lock() for
            \* the first of them
  images,   \* the images of the perform_batch_ocr call in progress
  temp,     \* the contents of the file ocr_input.png in the temp directory
  work,     \* work[i]: the position of the worker on image i
  results,  \* results[i]: the BatchOcrResult of image i, once it is made
  batch,    \* the vector perform_batch_ocr has returned, NoOut before
  instance, \* TRANSLATOR_INSTANCE: current_model of the service, or NoService
  tpc       \* tpc[t]: the translate_offline call thread t is in

\* the state of the tauri command layer
mgr == <<guard, lock, pc, env, acc, calls>>

\* the state of perform_batch_ocr and of the translator
apps == <<images, temp, work, results, batch, instance, tpc>>

\* the state of the stores and their commands
sync == <<doc, file, ret, guard, lock, pc, env, acc, calls>>

vars == <<doc, file, ret, guard, lock, pc, env, acc, calls,
          images, temp, work, results, batch, instance, tpc>>

(***************************************************************************)
(* The document engine, as sync.rs uses it.                                *)
(***************************************************************************)
NoDoc == [peer |-> 0, ops |-> {}]

\* a delete that leaves an empty nested map under the key
EmptyItemMap ==
  [live |-> TRUE, text |-> "", timestamp |-> Int64(0), lang |-> "", id |-> ""]

\* the value a deleted key holds
NoVal ==
  [live |-> FALSE, text |-> "", timestamp |-> Int64(0), lang |-> "", id |-> ""]

\* a nested map whose id field is filled from the text
ItemMapSwapped(item) ==
  [live |-> TRUE, text |-> item.text, timestamp |-> I64ToF64(item.timestamp),
   lang |-> item.lang, id |-> item.text]

\* the nested map add_item fills: text, timestamp as f64, lang, id
ItemMap(item) ==
  [live |-> TRUE, text |-> item.text, timestamp |-> I64ToF64(item.timestamp),
   lang |-> item.lang, id |-> item.id]

\* operations add_item applies: insert_container and four field inserts
AddLen == 5
\* operations delete_item applies
DeleteLen == 1

SetMax(S) == CHOOSE x \in S : \A y \in S : y <= x

\* the lamport timestamp the next local operation gets
NextLamport(d) ==
  IF d.ops = {} THEN 0 ELSE SetMax({o.lamport + o.len : o \in d.ops})

MapOp(d, key, val, len) ==
  [peer |-> d.peer, lamport |-> NextLamport(d), len |-> len, key |-> key,
   val |-> val]

\* an add that replaces the history map by a map of its item alone
InsertItemAlone(d, item) ==
  [d EXCEPT !.ops = {MapOp(d, item.id, ItemMap(item), AddLen)}]

\* history.insert_container(&item.id, ..) and the inserts into it
InsertItem(d, item) ==
  [d EXCEPT !.ops = @ \cup {MapOp(d, item.id, ItemMap(item), AddLen)}]

\* history.delete(id)
DeleteKey(d, id) ==
  [d EXCEPT !.ops = @ \cup {MapOp(d, id, NoVal, DeleteLen)}]

\* a map in which an insert wins over a delete
WinsAddOverDelete(o1, o2) ==
  \/ o1.val.live /\ ~o2.val.live
  \/ /\ o1.val.live = o2.val.live
     /\ \/ o1.lamport > o2.lamport
        \/ o1.lamport = o2.lamport /\ o1.peer > o2.peer

\* o1 is the later writer of the two
Wins(o1, o2) ==
  \/ o1.lamport > o2.lamport
  \/ o1.lamport = o2.lamport /\ o1.peer > o2.peer

KeyOps(d, key) == {o \in d.ops : o.key = key}

\* a map that lets the document's own writes win over concurrent ones
WinnerLocalFirst(d, key) ==
  CHOOSE o \in KeyOps(d, key) : \A p \in KeyOps(d, key) :
    \/ p = o
    \/ o.lamport > p.lamport
    \/ o.lamport = p.lamport /\ (o.peer = d.peer \/ (p.peer # d.peer /\ o.peer > p.peer))

\* a map that merges concurrent inserts of a key field by field: the lang
\* comes from the insert that lost
WinnerMixed(d, key) ==
  LET w    == CHOOSE o \in KeyOps(d, key) : \A p \in KeyOps(d, key) :
                \/ p = o
                \/ o.lamport > p.lamport
                \/ o.lamport = p.lamport /\ o.peer > p.peer
      rest == {p \in KeyOps(d, key) \ {w} : p.val.live /\ p.lamport = w.lamport}
  IN  IF rest = {} \/ ~w.val.live THEN w
      ELSE [w EXCEPT !.val.lang = (CHOOSE p \in rest : TRUE).val.lang]

Winner(d, key) ==
  CHOOSE o \in KeyOps(d, key) : \A p \in KeyOps(d, key) : p = o \/ Wins(o, p)

\* the keys of history.get_value()
LiveKeys(d) ==
  {k \in {o.key : o \in d.ops} : Winner(d, k).val.live}

\* an export of the operations of the document's own peer only
ExportOwn(d) == [kind |-> "snap", ops |-> {o \in d.ops : o.peer = d.peer}]

\* doc.export(ExportMode::Snapshot)
Export(d) == [kind |-> "snap", ops |-> d.ops]

\* bytes that are no snapshot
EmptyBytes == [kind |-> "empty", ops |-> {}]
CorruptBytes == [kind |-> "corrupt", ops |-> {}]
NoFile == [kind |-> "absent", ops |-> {}]

\* an import that takes any bytes for a snapshot
DecodesAnything(bytes) == TRUE

\* doc.import(&bytes) succeeds on a snapshot only
Decodes(bytes) == bytes.kind = "snap"

\* an import that loads the snapshot in place of the local state
MergeOpsReplace(ops, bytes) == bytes.ops

\* an import that drops the operations it already knows
MergeOpsToggle(ops, bytes) == (ops \ bytes.ops) \cup (bytes.ops \ ops)

\* the operations of a document after doc.import(&bytes)
MergeOps(ops, bytes) == ops \cup bytes.ops

DocImport(d, bytes) ==
  IF Decodes(bytes) THEN [d EXCEPT !.ops = MergeOps(@, bytes)] ELSE d

(***************************************************************************)
(* get_all_items: iterate the map (a hash map: in any order), read each    *)
(* nested map, then sort by timestamp descending (a stable sort).          *)
(***************************************************************************)
RECURSIVE Perms(_)
Perms(S) ==
  IF S = {} THEN {<<>>}
  ELSE UNION {{<<x>> \o p : p \in Perms(S \ {x})} : x \in S}

\* get_i64: LoroValue::Double(d) => *d as i64
ReadItem(d, key) ==
  LET v == Winner(d, key).val
  IN  HistoryItem(key, v.text, F64ToI64(v.timestamp), v.lang)

\* a compare that sorts ascending
BeforeAscending(a, b) == I64Less(a.timestamp, b.timestamp)

\* compare of items.sort_by: a goes before b only if b.timestamp < a.timestamp
Before(a, b) == I64Less(b.timestamp, a.timestamp)

RECURSIVE InsertSorted(_, _)
InsertSorted(s, x) ==
  IF s = <<>> THEN <<x>>
  ELSE IF Before(x, s[Len(s)]) THEN Append(InsertSorted(SubSeq(s, 1, Len(s) - 1), x), s[Len(s)])
  ELSE Append(s, x)

RECURSIVE SortItems(_)
SortItems(s) ==
  IF s = <<>> THEN <<>>
  ELSE InsertSorted(SortItems(SubSeq(s, 1, Len(s) - 1)), s[Len(s)])

\* a get_all_items that returns a key once more when it was inserted
\* concurrently
GetAllItemsPerInsert(d, order) ==
  LET items == [i \in 1..Len(order) |-> ReadItem(d, order[i])]
      Twice(it) == \E o, p \in KeyOps(d, it.id) :
                     o # p /\ o.val.live /\ p.val.live /\ o.lamport = p.lamport
  IN  SortItems(items \o SelectSeq(items, Twice))

\* the result of get_all_items when the map iterates in `order`
GetAllItemsIn(d, order) ==
  SortItems([i \in 1..Len(order) |-> ReadItem(d, order[i])])

\* every result get_all_items can return
GetAllItems(d) == {GetAllItemsIn(d, o) : o \in Perms(LiveKeys(d))}

\* the items of a document, in no order
ItemSet(d) == {ReadItem(d, k) : k \in LiveKeys(d)}

(***************************************************************************)
(* The file system under fs::read and fs::write.                           *)
(***************************************************************************)
\* fs::write(path, bytes): File::create, which truncates, then write_all.
\* It writes everything, or fails before touching the file, or fails after
\* the truncation with nothing or a part of the bytes written.
WriteOutcomes == {"ok", "refused", "truncated", "partial"}

Written(old, bytes, io) ==
  CASE io = "ok"        -> bytes
    [] io = "refused"   -> old
    [] io = "truncated" -> EmptyBytes
    [] io = "partial"   -> CorruptBytes

\* a save that appends to the file the operations the document has added
\* to it since the file was read
SaveToDiskLog(d, old, io) ==
  Written(old, [kind |-> "snap",
                ops |-> {o \in d.ops : o.lamport + o.len = NextLamport(d)}], io)

\* save_to_disk: export the full snapshot and write it to file_path
SaveToDisk(d, old, io) == Written(old, Export(d), io)

SaveResult(io) == IF io = "ok" THEN "ok" ELSE "io_error"

\* peer ids in use: of the documents in memory and of every operation kept
UsedPeers ==
  {doc[r].peer : r \in Replicas}
    \cup {o.peer : o \in UNION {doc[r].ops \cup file[r].ops : r \in Replicas}}

\* every operation that exists anywhere
AllOps == UNION {doc[r].ops \cup file[r].ops : r \in Replicas}

Call(op, r, arg, res, out) ==
  [op |-> op, rep |-> r, arg |-> arg, res |-> res, out |-> out]

NoArg == [id |-> ""]

\* Both stores are constructed, at paths that hold no file.  The replicas
\* are interchangeable, so A is the one that drew the smaller peer id.
FirstPeer == [r \in Replicas |-> IF r = "A" THEN 1 ELSE 2]

\* no thread is in a command
Threads == {"t1", "t2"}
NoThread == ""
NoPath == ""
Idle == [at |-> "idle", op |-> "none", arg |-> NoArg]
\* no thread is blocked in lock()
NoCalls == [t \in Threads |-> <<>>]

\* ocr_input.png does not exist
NoTemp == <<"absent">>
\* perform_batch_ocr has not returned
NoOut == [returned |-> FALSE, results |-> <<>>]
\* TRANSLATOR_INSTANCE holds None
NoService == <<>>
\* thread t is in no translate_offline call
NoCall == [at |-> "idle", name |-> <<>>, used |-> <<>>, res |-> "none"]

\* perform_batch_ocr and translate_offline are not in use
AppsUnused ==
  /\ images = <<>>
  /\ temp = NoTemp
  /\ work = <<>>
  /\ results = <<>>
  /\ batch = NoOut
  /\ instance = NoService
  /\ tpc = [t \in Threads |-> NoCall]

\* the command layer is not in use: the stores are driven directly
MgrUnused ==
  /\ guard = NoPath
  /\ lock = NoThread
  /\ pc = [t \in Threads |-> Idle]
  /\ env = FALSE
  /\ acc = {}
  /\ calls = NoCalls
  /\ AppsUnused

Init ==
  /\ doc = [r \in Replicas |-> [peer |-> FirstPeer[r], ops |-> {}]]
  /\ file = [r \in Replicas |-> NoFile]
  /\ ret = Call("none", "", NoArg, "ok", <<>>)
  /\ MgrUnused

\* load_from_disk on a fresh document: read the file, import unless empty
LoadFromDisk(d, bytes) ==
  IF bytes.kind = "empty" THEN d ELSE DocImport(d, bytes)

\* a load that imports empty bytes too
LoadResultStrict(bytes) == IF Decodes(bytes) THEN "ok" ELSE "decode_error"

\* a load that succeeds whatever the import returned
LoadResultLenient(bytes) == "ok"

LoadResult(bytes) ==
  IF bytes.kind = "empty" \/ Decodes(bytes) THEN "ok" ELSE "decode_error"

\* a load that takes any bytes for a file to import
ExistsAlways(bytes) == TRUE

\* the directory the file belongs in is missing
NoDir == [kind |-> "nodir", ops |-> {}]

\* file_path.exists()
Exists(bytes) == bytes.kind \notin {NoFile.kind, NoDir.kind}

\* the result of SyncManager::new at a path that holds `bytes`
NewResult(bytes, readOk) ==
  IF ~Exists(bytes) THEN "ok"
  ELSE IF ~readOk THEN "io_error"
  ELSE LoadResult(bytes)

\* the document of the manager SyncManager::new returns
NewDoc(fresh, bytes) ==
  IF ~Exists(bytes) THEN fresh ELSE LoadFromDisk(fresh, bytes)

\* SyncManager::new(path) by replica r, dropping the instance it had: a
\* fresh document with peer id p, hydrated from the file if there is one.
New(r, p, readOk) ==
  /\ p \in PeerIds \ UsedPeers
  /\ LET fresh == [peer |-> p, ops |-> {}]
         res   == NewResult(file[r], readOk)
     IN  /\ doc' = [doc EXCEPT ![r] =
                      IF res # "ok" THEN NoDoc ELSE NewDoc(fresh, file[r])]
         /\ ret' = Call("new", r, NoArg, res, <<>>)
  /\ ~Exists(file[r]) => readOk
  /\ UNCHANGED file

\* add_item
AddItem(r, item, io) ==
  /\ doc[r] # NoDoc
  /\ doc' = [doc EXCEPT ![r] = InsertItem(@, item)]
  /\ file' = [file EXCEPT ![r] = SaveToDisk(doc'[r], @, io)]
  /\ ret' = Call("add", r, item, SaveResult(io), <<>>)

\* delete_item; a delete of a key the map does not hold may or may not be
\* recorded as an operation by the engine
DeleteItem(r, id, logged, io) ==
  /\ doc[r] # NoDoc
  /\ id \in LiveKeys(doc[r]) => logged
  /\ doc' = [doc EXCEPT ![r] = IF logged THEN DeleteKey(@, id) ELSE @]
  /\ file' = [file EXCEPT ![r] = SaveToDisk(doc'[r], @, io)]
  /\ ret' = Call("delete", r, [id |-> id], SaveResult(io), <<>>)

\* a get_all_items that persists what it has read
GetAllSaves(r, order) ==
  /\ doc[r] # NoDoc
  /\ order \in Perms(LiveKeys(doc[r]))
  /\ ret' = Call("list", r, NoArg, "ok", GetAllItemsIn(doc[r], order))
  /\ file' = [file EXCEPT ![r] = SaveToDisk(doc[r], @, "ok")]
  /\ UNCHANGED doc

\* get_all_items, the map iterating in `order`
GetAll(r, order) ==
  /\ doc[r] # NoDoc
  /\ order \in Perms(LiveKeys(doc[r]))
  /\ ret' = Call("list", r, NoArg, "ok", GetAllItemsIn(doc[r], order))
  /\ UNCHANGED <<doc, file>>

\* the bytes a replica can be handed: another replica's export or file, or
\* bytes that are no snapshot
Snapshots(r) ==
  {Export(doc[s]) : s \in {t \in Replicas \ {r} : doc[t] # NoDoc}}
    \cup {file[s] : s \in {t \in Replicas \ {r} : file[t] # NoFile}}
    \cup {CorruptBytes}

\* import_snapshot
ImportSnapshot(r, bytes, io) ==
  /\ doc[r] # NoDoc
  /\ bytes \in Snapshots(r)
  /\ IF Decodes(bytes)
     THEN /\ doc' = [doc EXCEPT ![r] = DocImport(@, bytes)]
          /\ file' = [file EXCEPT ![r] = SaveToDisk(doc'[r], @, io)]
          /\ ret' = Call("import", r, bytes, SaveResult(io), <<>>)
             ELSE /\ io = "ok"
          /\ ret' = Call("import", r, bytes, "decode_error", <<>>)
          /\ UNCHANGED <<doc, file>>

\* fewer than n operations exist: the bound of a run
Room(n) == Cardinality(AllOps) < n

\* Two replicas on reliable disks; a delete is recorded as an operation
\* when the key is there.
Next ==
  \/ \E r \in Replicas, item \in Items :
       Room(MaxOps) /\ AddItem(r, item, "ok") /\ UNCHANGED <<mgr, apps>>
  \/ \E r \in Replicas, id \in Ids :
       /\ Room(MaxOps) /\ DeleteItem(r, id, id \in LiveKeys(doc[r]), "ok")
       /\ UNCHANGED <<mgr, apps>>
  \/ \E r \in Replicas : \E order \in Perms(LiveKeys(doc[r])) :
       GetAll(r, order) /\ UNCHANGED <<mgr, apps>>
  \/ \E r \in Replicas : \E bytes \in Snapshots(r) :
       ImportSnapshot(r, bytes, "ok") /\ UNCHANGED <<mgr, apps>>

Spec == Init /\ [][Next]_vars

\* Replica A on a disk that can fail, restarting at will; replica B only
\* adds items, which A can import.
NextDisk ==
  \/ \E p \in PeerIds, readOk \in BOOLEAN : New("A", p, readOk) /\ UNCHANGED <<mgr, apps>>
  \/ \E item \in Items, io \in WriteOutcomes :
       Room(MaxDiskOps) /\ AddItem("A", item, io) /\ UNCHANGED <<mgr, apps>>
  \/ \E id \in Ids, logged \in BOOLEAN, io \in WriteOutcomes :
       Room(MaxDiskOps) /\ DeleteItem("A", id, logged, io) /\ UNCHANGED <<mgr, apps>>
  \/ \E order \in Perms(LiveKeys(doc["A"])) : GetAll("A", order) /\ UNCHANGED <<mgr, apps>>
  \/ \E bytes \in Snapshots("A"), io \in WriteOutcomes :
       ImportSnapshot("A", bytes, io) /\ UNCHANGED <<mgr, apps>>
  \/ \E item \in Items :
       Room(MaxDiskOps) /\ AddItem("B", item, "ok") /\ UNCHANGED <<mgr, apps>>

SpecDisk == Init /\ [][NextDisk]_vars

\* Replica A alone on a reliable disk, with items of five ids, one of them
\* empty.
ListItems == {Dog, Cat, Owl, Emu, Nameless}

NextList ==
  \/ \E item \in ListItems :
       Room(MaxListOps) /\ AddItem("A", item, "ok") /\ UNCHANGED <<mgr, apps>>
  \/ \E id \in {i.id : i \in ListItems}, logged \in BOOLEAN :
       Room(MaxListOps) /\ DeleteItem("A", id, logged, "ok") /\ UNCHANGED <<mgr, apps>>
  \/ \E order \in Perms(LiveKeys(doc["A"])) : GetAll("A", order) /\ UNCHANGED <<mgr, apps>>

SpecList == Init /\ [][NextList]_vars

\* -t
I64Neg(t) == [t EXCEPT !.neg = TRUE]

\* t + n for a small n >= 0 that does not carry out of the low limb
Above(t, n) == [t EXCEPT !.l0 = @ + n]

\* timestamps (pub timestamp: i64): small ones, the values around 2^53
\* and the ends of the range
Stamps ==
  {Int64(0), Int64(100), Int64(0 - 100),
   TwoPow(MantissaBits), Above(TwoPow(MantissaBits), 1),
   Above(TwoPow(MantissaBits), 3), I64Neg(Above(TwoPow(MantissaBits), 1)),
   I64Max, [I64Max EXCEPT !.l0 = @ - 1], I64Min}

StampItems == {HistoryItem("dog", "Dog", t, "eng") : t \in Stamps}

\* Replica A alone on a reliable disk: items of one id with the timestamps
\* of Stamps are added and listed, and the store is opened again.
NextStamp ==
  \/ \E item \in StampItems :
       Room(MaxStampOps) /\ AddItem("A", item, "ok") /\ UNCHANGED <<mgr, apps>>
  \/ \E order \in Perms(LiveKeys(doc["A"])) : GetAll("A", order) /\ UNCHANGED <<mgr, apps>>
  \/ \E p \in PeerIds : New("A", p, TRUE) /\ UNCHANGED <<mgr, apps>>

SpecStamp == Init /\ [][NextStamp]_vars

(***************************************************************************)
(* The tauri commands: the singleton SYNC_MANAGER behind its mutex.  Each  *)
(* command locks the mutex, runs the body of the SyncManager method on the *)
(* manager the singleton holds, and unlocks as it returns.  The methods    *)
(* that mutate are split where they turn from memory to disk.              *)
(***************************************************************************)
\* the strings the commands return
NotInitialized == "Sync manager not initialized"
Initialized == "Initialized"
InitializedTestMode == "Initialized (Test Mode)"

\* a command returned Ok
IsOk(res) == res \in {"ok", Initialized, InitializedTestMode}

\* the file of test mode: history.crdt in $SCREEN_INU_TEST_DIR
TestPath == "B"

\* an init that backs the store with the path of the caller
TargetCaller(e, path) == path

\* the path sync_init backs the store with
Target(e, path) == IF e THEN TestPath ELSE path

\* an init that keeps the manager it replaces
InstallBeside(d, path, new) == [d EXCEPT ![path] = new]

\* *guard = Some(manager): the manager held before is dropped
Install(d, path, new) ==
  [r \in DOMAIN d |-> IF r = path THEN new ELSE NoDoc]

MgrItems == {Dog, Cat}

Access(path, kind) == [path |-> path, kind |-> kind]

\* a mutex that can be locked while it is held
FreeAlways(l) == TRUE

\* SYNC_MANAGER.lock() returns when no thread holds the mutex
Free(l) == l = NoThread

\* a command that reads the file it is given before it looks for a manager
UninitAccessReads(op, arg) ==
  IF op = "import" THEN {Access(arg.path, "read")} ELSE {}

\* the file-system accesses of a command that finds no manager
UninitAccess(op, arg) == {}

\* no command has returned since the last one was called
NoReply ==
  [op |-> "none", rep |-> NoPath, arg |-> NoArg, res |-> "ok", out |-> <<>>,
   cause |-> "none"]

\* a command that keeps the mutex locked when it returns an error
ReplyKeepsLock(t, op, arg, path, res, cause, out) ==
  /\ ret' = [op |-> op, rep |-> path, arg |-> arg, res |-> res, out |-> out,
             cause |-> cause]
  /\ lock' = IF IsOk(res) THEN NoThread ELSE t
  /\ pc' = [pc EXCEPT ![t] = Idle]

\* the command returns res to its caller; its MutexGuard is dropped
Reply(t, op, arg, path, res, cause, out) ==
  /\ ret' = [op |-> op, rep |-> path, arg |-> arg, res |-> res, out |-> out,
             cause |-> cause]
  /\ lock' = NoThread
  /\ pc' = [pc EXCEPT ![t] = Idle]

\* no command has been called; no directory exists
InitManager ==
  /\ doc = [r \in Replicas |-> NoDoc]
  /\ file = [r \in Replicas |-> NoDir]
  /\ ret = NoReply
  /\ guard = NoPath
  /\ lock = NoThread
  /\ pc = [t \in Threads |-> Idle]
  /\ env \in BOOLEAN
  /\ acc = {}
  /\ calls = NoCalls
  /\ AppsUnused

\* thread t calls a command and SYNC_MANAGER.lock() returns
SyncLock(t) ==
  /\ pc[t].at = "idle"
  /\ Free(lock)

\* the command has changed the document and turns to save_to_disk, the
\* mutex held
ToSave(t, op, arg) ==
  /\ lock' = t
  /\ pc' = [pc EXCEPT ![t] = [at |-> "save", op |-> op, arg |-> arg]]
  /\ ret' = NoReply

\* the peer id of the next LoroDoc::new()
NextPeer == SetMax(UsedPeers) + 1

\* an init that empties the singleton before it constructs the manager
GuardTaken(g, path, res) == IF res = "ok" THEN path ELSE NoPath

\* the singleton after sync_init: `?` returns before *guard = Some(manager)
\* when the directory or SyncManager::new failed
GuardAfter(g, path, res) == IF res = "ok" THEN path ELSE g

\* sync_init(path): the directory, SyncManager::new, *guard = Some(manager)
SyncInit(t, arg, p, mkOk, readOk) ==
  /\ SyncLock(t)
  /\ p \in PeerIds \ UsedPeers
  /\ LET path  == Target(env, arg.path)
         made  == IF file[path] = NoDir /\ mkOk THEN NoFile ELSE file[path]
         res   == IF made = NoDir THEN "io_error" ELSE NewResult(made, readOk)
         cause == IF res = "ok" THEN "none"
                  ELSE IF made = NoDir THEN "mkdir"
                  ELSE IF res = "io_error" THEN "read" ELSE "merge"
         fresh == [peer |-> p, ops |-> {}]
     IN  /\ file[path] # NoDir => mkOk
         /\ ~Exists(made) => readOk
         /\ file' = [file EXCEPT ![path] = made]
         /\ acc' = {Access(path, "exists")}
                     \cup (IF file[path] = NoDir THEN {Access(path, "mkdir")} ELSE {})
                     \cup (IF Exists(made) THEN {Access(path, "read")} ELSE {})
         /\ guard' = GuardAfter(guard, path, res)
         /\ doc' = IF res = "ok" THEN Install(doc, path, NewDoc(fresh, made))
                   ELSE doc
         /\ Reply(t, "init", arg, IF res = "ok" THEN path ELSE guard,
                  IF res # "ok" THEN res
                  ELSE IF env THEN InitializedTestMode ELSE Initialized,
                  cause, <<>>)
  /\ UNCHANGED env

\* guard.as_ref().ok_or("Sync manager not initialized")? of the commands
\* other than sync_init
SyncNotInit(t, op, arg) ==
  /\ SyncLock(t)
  /\ guard = NoPath
  /\ acc' = UninitAccess(op, arg)
  /\ Reply(t, op, arg, guard, NotInitialized, "uninit", <<>>)
  /\ UNCHANGED <<doc, file, guard, env>>

\* sync_add_item, up to save_to_disk
SyncAddItem(t, item) ==
  /\ SyncLock(t)
  /\ guard # NoPath
  /\ doc' = [doc EXCEPT ![guard] = InsertItem(@, item)]
  /\ acc' = {}
  /\ ToSave(t, "add", item)
  /\ UNCHANGED <<file, guard, env>>

\* sync_delete_item, up to save_to_disk
SyncDeleteItem(t, id, logged) ==
  /\ SyncLock(t)
  /\ guard # NoPath
  /\ id \in LiveKeys(doc[guard]) => logged
  /\ doc' = [doc EXCEPT ![guard] = IF logged THEN DeleteKey(@, id) ELSE @]
  /\ acc' = {}
  /\ ToSave(t, "delete", [id |-> id])
  /\ UNCHANGED <<file, guard, env>>

\* sync_import_snapshot(path): fs::read(&path), then import_snapshot up to
\* save_to_disk
SyncImportSnapshot(t, arg, readOk) ==
  /\ SyncLock(t)
  /\ guard # NoPath
  /\ LET bytes == file[arg.path]
     IN  /\ ~Exists(bytes) => readOk
         /\ acc' = {Access(arg.path, "read")}
         /\ IF ~Exists(bytes) \/ ~readOk
            THEN /\ Reply(t, "import", arg, guard, "io_error", "read", <<>>)
                 /\ UNCHANGED doc
            ELSE IF ~Decodes(bytes)
            THEN /\ Reply(t, "import", arg, guard, "decode_error", "merge", <<>>)
                 /\ UNCHANGED doc
            ELSE /\ doc' = [doc EXCEPT ![guard] = DocImport(@, bytes)]
                 /\ ToSave(t, "import", arg)
  /\ UNCHANGED <<file, guard, env>>

\* save_to_disk of add_item, delete_item and import_snapshot, and the return
SyncSave(t, io) ==
  /\ pc[t].at = "save"
  /\ file' = [file EXCEPT ![guard] = SaveToDisk(doc[guard], @, io)]
  /\ acc' = acc \cup {Access(guard, "write")}
  /\ Reply(t, pc[t].op, pc[t].arg, guard, SaveResult(io),
           IF io = "ok" THEN "none" ELSE "write", <<>>)
  /\ UNCHANGED <<doc, guard, env>>

\* the keys of the history map of the manager the singleton holds
MgrKeys == IF guard = NoPath THEN {} ELSE LiveKeys(doc[guard])

\* sync_get_all
SyncGetAll(t, order) ==
  /\ SyncLock(t)
  /\ guard # NoPath
  /\ order \in Perms(MgrKeys)
  /\ acc' = {}
  /\ Reply(t, "list", NoArg, guard, "ok", "none", GetAllItemsIn(doc[guard], order))
  /\ UNCHANGED <<doc, file, guard, env>>

\* the calls the threads make
MgrPaths == {[path |-> r] : r \in Replicas}
MgrCalls ==
  {<<"add", i>> : i \in MgrItems}
    \cup {<<"delete", [id |-> i.id]>> : i \in MgrItems}
    \cup {<<"list", NoArg>>}
    \cup {<<"import", a>> : a \in MgrPaths}

\* Two threads call the commands with the paths A and B, on a disk that can
\* fail.  A delete is recorded when the key is there, and the peer ids of
\* the documents grow.
NextManager ==
  \/ \E t \in Threads, arg \in MgrPaths, mkOk \in BOOLEAN, readOk \in BOOLEAN :
       SyncInit(t, arg, NextPeer, mkOk, readOk) /\ UNCHANGED <<calls, apps>>
  \/ \E t \in Threads, call \in MgrCalls :
       SyncNotInit(t, call[1], call[2]) /\ UNCHANGED <<calls, apps>>
  \/ \E t \in Threads, item \in MgrItems :
       Room(MaxMgrOps) /\ SyncAddItem(t, item) /\ UNCHANGED <<calls, apps>>
  \/ \E t \in Threads, id \in {i.id : i \in MgrItems} :
       Room(MaxMgrOps) /\ SyncDeleteItem(t, id, id \in MgrKeys) /\ UNCHANGED <<calls, apps>>
  \/ \E t \in Threads, arg \in MgrPaths, readOk \in BOOLEAN :
       SyncImportSnapshot(t, arg, readOk) /\ UNCHANGED <<calls, apps>>
  \/ \E t \in Threads, io \in WriteOutcomes : SyncSave(t, io) /\ UNCHANGED <<calls, apps>>
  \/ \E t \in Threads : \E order \in Perms(MgrKeys) :
       SyncGetAll(t, order) /\ UNCHANGED <<calls, apps>>

SpecManager == InitManager /\ [][NextManager]_vars

\* the items a thread adds: the ids of the two threads differ
ThreadItems(t) == IF t = "t1" THEN {Dog, Owl} ELSE {Cat, Emu}

\* sync_init("A") has returned on a disk without the directory: the
\* singleton holds an empty store, no file written yet
InitRace ==
  /\ env \in BOOLEAN
  /\ guard = Target(env, "A")
  /\ doc = [r \in Replicas |->
             IF r = guard THEN [peer |-> 1, ops |-> {}] ELSE NoDoc]
  /\ file = [r \in Replicas |-> IF r = guard THEN NoFile ELSE NoDir]
  /\ ret = [op |-> "init", rep |-> guard, arg |-> [path |-> "A"],
            res |-> IF env THEN InitializedTestMode ELSE Initialized,
            out |-> <<>>, cause |-> "none"]
  /\ lock = NoThread
  /\ pc = [t \in Threads |-> Idle]
  /\ acc = {Access(guard, "exists"), Access(guard, "mkdir")}
  /\ calls = NoCalls
  /\ AppsUnused

\* Two threads call sync_add_item, each with ids of its own, and
\* sync_get_all, on a disk that does not fail.
NextRace ==
  \/ \E t \in Threads : \E item \in ThreadItems(t) :
       Room(MaxRaceOps) /\ SyncAddItem(t, item) /\ UNCHANGED <<calls, apps>>
  \/ \E t \in Threads : SyncSave(t, "ok") /\ UNCHANGED <<calls, apps>>
  \/ \E t \in Threads : \E order \in Perms(MgrKeys) :
       SyncGetAll(t, order) /\ UNCHANGED <<calls, apps>>

SpecRace == InitRace /\ [][NextRace]_vars

\* the calls of SpecLive
LiveCalls ==
  {<<"init", [path |-> "A"]>>, <<"add", Dog>>, <<"delete", [id |-> Dog.id]>>,
   <<"list", NoArg>>, <<"import", [path |-> "B"]>>}

\* the sequences of at most n calls
CallSeqs(n) == UNION {[1..k -> LiveCalls] : k \in 0..n}

\* No command has been called; each thread has a finite sequence of calls
\* to make.  The disk holds no directory for A and, at B, a file that is no
\* snapshot.
InitLive ==
  /\ doc = [r \in Replicas |-> NoDoc]
  /\ file = [r \in Replicas |-> IF r = "A" THEN NoDir ELSE CorruptBytes]
  /\ ret = NoReply
  /\ guard = NoPath
  /\ lock = NoThread
  /\ pc = [t \in Threads |-> Idle]
  /\ env = FALSE
  /\ acc = {}
  /\ AppsUnused
  /\ calls \in [Threads -> CallSeqs(MaxCalls)]
  /\ Len(calls["t1"]) + Len(calls["t2"]) <= MaxCalls

\* SYNC_MANAGER.lock() returns in thread t, for the call it is blocked in,
\* and the command runs up to its return or up to save_to_disk
Serve(t) ==
  /\ calls[t] # <<>>
  /\ calls' = [calls EXCEPT ![t] = Tail(@)]
  /\ UNCHANGED apps
  /\ LET op  == Head(calls[t])[1]
         arg == Head(calls[t])[2]
     IN  \/ /\ op = "init"
            /\ \E mkOk \in BOOLEAN, readOk \in BOOLEAN :
                 SyncInit(t, arg, NextPeer, mkOk, readOk)
         \/ op # "init" /\ SyncNotInit(t, op, arg)
         \/ op = "add" /\ SyncAddItem(t, arg)
         \/ op = "delete" /\ SyncDeleteItem(t, arg.id, arg.id \in MgrKeys)
         \/ /\ op = "import"
            /\ \E readOk \in BOOLEAN : SyncImportSnapshot(t, arg, readOk)
         \/ /\ op = "list"
            /\ \E order \in Perms(MgrKeys) : SyncGetAll(t, order)

\* save_to_disk of thread t, and the return
Save(t) == \E io \in WriteOutcomes : SyncSave(t, io) /\ UNCHANGED <<calls, apps>>

NextLive == \E t \in Threads : Serve(t) \/ Save(t)

\* a thread that is not blocked runs: a lock() on a free mutex returns,
\* and a write to the file returns
LiveFair == \A t \in Threads : WF_vars(Serve(t)) /\ WF_vars(Save(t))

\* Two threads make finitely many calls of the commands, on a disk that
\* can fail.
SpecLive == InitLive /\ [][NextLive]_vars /\ LiveFair

(***************************************************************************)
(* perform_batch_ocr (lib.rs) over perform_tesseract_ocr (ocr.rs).  The    *)
(* images are mapped by the workers of a rayon pool, one task per image;   *)
(* every task that decodes its image stages it in the one file             *)
(* temp_dir()/ocr_input.png, creates the file, writes it, closes it and    *)
(* runs tesseract on the path.                                             *)
(***************************************************************************)
\* no store and no command of sync.rs is in use
SyncUnused ==
  /\ doc = [r \in Replicas |-> NoDoc]
  /\ file = [r \in Replicas |-> NoDir]
  /\ ret = NoReply
  /\ guard = NoPath
  /\ lock = NoThread
  /\ pc = [t \in Threads |-> Idle]
  /\ env = FALSE
  /\ acc = {}
  /\ calls = NoCalls

\* the pictures a caller passes, as base64
Pictures == {"P", "Q"}
\* a string that is no base64
NotBase64 == "X"
ImageInputs == Pictures \cup {NotBase64}

\* the length of a picture in bytes: Q is the longer one
Size(img) == IF img = "P" THEN 1 ELSE 2

\* the text tesseract prints for a picture
TextOf(img) == IF img = "P" THEN "pear" ELSE "quince"

\* Option<String>
None == <<>>
Some(x) == <<x>>

BatchOcrResult(index, text, error) ==
  [index |-> index, text |-> text, error |-> error]

\* the place of a result that is not made yet
NoResult == BatchOcrResult(0 - 1, None, None)

DecodeError == "Base64 decode error"
TesseractError == "Tesseract error"

\* ocr_input.png with no bytes: File::create truncates
EmptyTemp == <<>>

\* the length of the file: its contents are <<>>, <<img>>, or <<img, old>>
\* for the bytes of img followed by what is left of the longer old
TempSize(c) == IF c \in {NoTemp, EmptyTemp} THEN 0 ELSE Size(c[Len(c)])

\* file.write_all(image_bytes) through a handle at offset 0: the bytes
\* beyond the image stay
WriteAll(c, img) ==
  IF Size(img) >= TempSize(c) THEN <<img>> ELSE <<img, c[Len(c)]>>

\* what tesseract returns for the contents of the file: the text of the
\* picture, an error for no picture; a picture followed by other bytes is
\* read or refused
Outcomes(c) ==
  IF c \in {NoTemp, EmptyTemp} THEN {[ok |-> FALSE, text |-> TesseractError]}
  ELSE {[ok |-> TRUE, text |-> TextOf(c[1])]}
         \cup (IF Len(c) > 1 THEN {[ok |-> FALSE, text |-> TesseractError]} ELSE {})

\* a perform_batch_ocr call has been made with one to MaxImages images;
\* no task has started
InitBatch ==
  /\ SyncUnused
  /\ images \in UNION {[1..n -> ImageInputs] : n \in 1..MaxImages}
  /\ temp = NoTemp
  /\ work = [i \in DOMAIN images |-> "start"]
  /\ results = [i \in DOMAIN images |-> NoResult]
  /\ batch = NoOut
  /\ instance = NoService
  /\ tpc = [t \in Threads |-> NoCall]

\* a task finishes: its BatchOcrResult carries the index of enumerate()
Finish(i, text, error) ==
  /\ results' = [results EXCEPT ![i] = BatchOcrResult(i - 1, text, error)]
  /\ work' = [work EXCEPT ![i] = "done"]

\* STANDARD.decode(base64_data) fails
DecodeFails(i) ==
  /\ work[i] = "start"
  /\ images[i] = NotBase64
  /\ Finish(i, None, Some(DecodeError))
  /\ UNCHANGED <<images, temp, batch>>

\* the image decodes; perform_tesseract_ocr: File::create(&temp_path)
Create(i) ==
  /\ work[i] = "start"
  /\ images[i] \in Pictures
  /\ temp' = EmptyTemp
  /\ work' = [work EXCEPT ![i] = "created"]
  /\ UNCHANGED <<images, results, batch>>

\* file.write_all(image_bytes); drop(file)
Write(i) ==
  /\ work[i] = "created"
  /\ temp' = WriteAll(temp, images[i])
  /\ work' = [work EXCEPT ![i] = "written"]
  /\ UNCHANGED <<images, results, batch>>

\* cmd.output(): tesseract reads the file at temp_path
Run(i, o) ==
  /\ work[i] = "written"
  /\ o \in Outcomes(temp)
  /\ IF o.ok THEN Finish(i, Some(o.text), None)
             ELSE Finish(i, None, Some(o.text))
  /\ UNCHANGED <<images, temp, batch>>

\* collect(): the results in the order of the images
Collect ==
  /\ batch = NoOut
  /\ \A i \in DOMAIN images : work[i] = "done"
  /\ batch' = [returned |-> TRUE, results |-> results]
  /\ UNCHANGED <<images, temp, work, results>>

NextBatch ==
  \/ \E i \in DOMAIN images : DecodeFails(i) /\ UNCHANGED <<sync, instance, tpc>>
  \/ \E i \in DOMAIN images : Create(i) /\ UNCHANGED <<sync, instance, tpc>>
  \/ \E i \in DOMAIN images : Write(i) /\ UNCHANGED <<sync, instance, tpc>>
  \/ \E i \in DOMAIN images : \E o \in Outcomes(temp) :
       Run(i, o) /\ UNCHANGED <<sync, instance, tpc>>
  \/ Collect /\ UNCHANGED <<sync, instance, tpc>>

SpecBatch == InitBatch /\ [][NextBatch]_vars

(***************************************************************************)
(* translate_offline (translator.rs) over the singleton                    *)
(* TRANSLATOR_INSTANCE.  A call locks the mutex twice: in                  *)
(* get_or_init_translator, which loads the model unless the one loaded     *)
(* will do, and again to translate.  Strings are sequences of characters;  *)
(* the fixed parts of a name are kept as one element.                      *)
(***************************************************************************)
\* language codes; Z is a code that is the beginning of Zh
En == <<"e", "n">>
Zh == <<"z", "h">>
Z  == <<"z">>

\* the language pairs the callers pass
LangPairs == {<<En, Zh>>, <<Zh, En>>, <<En, Z>>}

\* format!("opus-mt-{}-{}", source_lang, target_lang)
ModelName(src, tgt) == <<"opus-mt-">> \o src \o <<"-">> \o tgt

\* models_dir.join(model_name)
ModelPath(name) == <<"translation_models", "/">> \o name

\* the models that have been downloaded
Installed == {ModelName(En, Zh), ModelName(Zh, En)}

\* str::contains
Contains(str, pat) ==
  \E k \in 0..(Len(str) - Len(pat)) : SubSeq(str, k + 1, k + Len(pat)) = pat

\* no translate_offline call is in progress and no model is loaded
InitTranslate ==
  /\ SyncUnused
  /\ images = <<>>
  /\ temp = NoTemp
  /\ work = <<>>
  /\ results = <<>>
  /\ batch = NoOut
  /\ instance = NoService
  /\ tpc = [t \in Threads |-> NoCall]

\* translate_offline returns in thread t
Translated(t, name, used, res) ==
  tpc' = [tpc EXCEPT ![t] = [at |-> "done", name |-> name, used |-> used,
                             res |-> res]]

\* thread t calls translate_offline: get_or_init_translator(&model_name),
\* under the mutex
GetOrInitTranslator(t, pair, loadOk) ==
  /\ tpc[t].at \in {"idle", "done"}
  /\ LET name == ModelName(pair[1], pair[2])
     IN  IF instance # NoService /\ Contains(instance, name)
         THEN /\ tpc' = [tpc EXCEPT ![t] = [at |-> "ready", name |-> name,
                                            used |-> <<>>, res |-> "none"]]
              /\ loadOk
              /\ UNCHANGED instance
         ELSE IF name \notin Installed
         THEN /\ Translated(t, name, <<>>, "not_found")
              /\ loadOk
              /\ UNCHANGED instance
         ELSE IF ~loadOk
         THEN /\ Translated(t, name, <<>>, "load_error")
              /\ UNCHANGED instance
         ELSE /\ instance' = ModelPath(name)
              /\ tpc' = [tpc EXCEPT ![t] = [at |-> "ready", name |-> name,
                                            used |-> <<>>, res |-> "none"]]
  /\ UNCHANGED <<images, temp, work, results, batch>>

\* the second lock of translate_offline and service.translate(&text)
Translate(t) ==
  /\ tpc[t].at = "ready"
  /\ IF instance = NoService
     THEN Translated(t, tpc[t].name, <<>>, "uninit")
     ELSE Translated(t, tpc[t].name, instance, "ok")
  /\ UNCHANGED <<images, temp, work, results, batch, instance>>

NextTranslate ==
  \/ \E t \in Threads, pair \in LangPairs, loadOk \in BOOLEAN :
       GetOrInitTranslator(t, pair, loadOk) /\ UNCHANGED sync
  \/ \E t \in Threads : Translate(t) /\ UNCHANGED sync

SpecTranslate == InitTranslate /\ [][NextTranslate]_vars

(***************************************************************************)
(* Properties.                                                             *)
(***************************************************************************)
\* item is in every result list() can return for d
OnList(item, d) ==
  \A l \in GetAllItems(d) : \E k \in 1..Len(l) : l[k] = item

\* the ids in a result of list()
IdsOf(l) == {l[k].id : k \in 1..Len(l)}

\* the call that just returned
Returned(op, res) == ret.op = op /\ ret.res = res

\* C1: immediately after add(I) returns success, list() on the same store
\* contains an item whose id, text, timestamp and lang equal those of I.
C1_AddThenList ==
  Returned("add", "ok") => OnList(ret.arg, doc[ret.rep])

\* i64 values that `as f64` keeps
Exact(t) == F64ToI64(I64ToF64(t)) = t

\* C1, for items whose timestamp survives the conversion to f64
C1_AddThenListExact ==
  Returned("add", "ok") /\ Exact(ret.arg.timestamp)
    => OnList(ret.arg, doc[ret.rep])

\* the other replica
Other(r) == CHOOSE s \in Replicas : s # r

\* C2: after successful add/delete calls, a fresh store constructed at the
\* same path lists the same items with the same field values; in
\* particular it contains the item just added.
C2_PersistenceRoundTrip ==
  [][(/\ ret.op \in {"add", "delete"}
      /\ ret.res = "ok"
      /\ ret'.op = "new"
      /\ ret'.res = "ok"
      /\ ret'.rep = ret.rep)
       => /\ GetAllItems(doc'[ret.rep]) = GetAllItems(doc[ret.rep])
          /\ ret.op = "add" => OnList(ret.arg, doc'[ret.rep])]_vars

\* C2, as far as the store reads back what it held in memory
C2_ReloadsWhatMemoryHeld ==
  [][(/\ ret.op \in {"add", "delete"}
      /\ ret.res = "ok"
      /\ ret'.op = "new"
      /\ ret'.res = "ok"
      /\ ret'.rep = ret.rep)
       => GetAllItems(doc'[ret.rep]) = GetAllItems(doc[ret.rep])]_vars

\* a result of list() is in descending order of timestamp
Descending(l) ==
  \A k \in 1..(Len(l) - 1) : ~I64Less(l[k].timestamp, l[k + 1].timestamp)

\* the document a snapshot decodes to
Decoded(bytes) == [peer |-> 0, ops |-> bytes.ops]

\* an import by r of a snapshot that succeeded in this step
Imported(r) == ret'.op = "import" /\ ret'.res = "ok" /\ ret'.rep = r

\* the outcome C3 states for an import: exactly the two items, in order
UnionOf(d, X, Y) ==
  /\ ItemSet(d) = {X, Y}
  /\ \A l \in GetAllItems(d) : Len(l) = 2 /\ Descending(l)

\* the store holds only X and is handed a snapshot that holds only Y
FirstOfExchange(r, X, Y) ==
  /\ X.id # Y.id
  /\ ItemSet(doc[r]) = {X}
  /\ ItemSet(Decoded(ret'.arg)) = {Y}

\* the store holds only Y and is handed the snapshot of a store that has
\* imported Y next to its own X
SecondOfExchange(r, X, Y) ==
  /\ X.id # Y.id
  /\ ItemSet(doc[r]) = {Y}
  /\ ItemSet(Decoded(ret'.arg)) = {X, Y}

\* the store has recorded no operation on the id
Untouched(d, id) == KeyOps(d, id) = {}

\* the items the store lists or the snapshot it is handed holds
Held(r) == ItemSet(doc[r]) \cup ItemSet(Decoded(ret'.arg))

\* C3 as stated: if A holds only X and B holds only Y (distinct ids), then
\* after A imports B's snapshot A lists exactly {X, Y}, and after B imports
\* A's snapshot B lists exactly {X, Y}, whichever import comes first; the
\* merged list is in descending order of timestamp.
C3_CommutativeUnion ==
  [][\A r \in Replicas : Imported(r) =>
       \A X \in Held(r), Y \in Held(r) :
         FirstOfExchange(r, X, Y) \/ SecondOfExchange(r, X, Y)
           => UnionOf(doc'[r], X, Y)]_vars

\* C3, amended: the same, provided neither replica has added or deleted
\* the other's id before the exchange.
C3_CommutativeUnionFresh ==
  [][\A r \in Replicas : Imported(r) =>
       \A X \in Held(r), Y \in Held(r) :
         \/ /\ FirstOfExchange(r, X, Y)
            /\ Untouched(doc[r], Y.id)
            /\ Untouched(Decoded(ret'.arg), X.id)
         \/ /\ SecondOfExchange(r, X, Y)
            /\ Untouched(doc[r], X.id)
         => UnionOf(doc'[r], X, Y)]_vars

\* both replicas hold Dog and Cat after importing each other's snapshot,
\* and list Cat@200 before Dog@100
C3_Witness ==
  /\ Returned("import", "ok")
  /\ \A r \in Replicas :
       /\ Cardinality(doc[r].ops) = 2
       /\ {o.peer : o \in doc[r].ops} = {FirstPeer[q] : q \in Replicas}
       /\ GetAllItems(doc[r]) = {<<Cat, Dog>>}

\* C4: importing the same snapshot a second time leaves list() as it was
\* after the first import.
C4_IdempotentMerge ==
  Returned("import", "ok")
    => GetAllItems(DocImport(doc[ret.rep], ret.arg)) = GetAllItems(doc[ret.rep])

\* a store has imported a snapshot that brought it an item it did not have,
\* and can be handed the same bytes again
C4_Witness ==
  /\ Returned("import", "ok")
  /\ ret.arg \in Snapshots(ret.rep)
  /\ Cardinality(ItemSet(doc[ret.rep])) = 2
  /\ Cardinality(ItemSet(Decoded(ret.arg))) = 1

\* two replicas added the same id with different values, neither knowing
\* of the other's add
Conflict(d, e) ==
  \E o \in d.ops, p \in e.ops :
    /\ o.key = p.key /\ o.peer # p.peer /\ o.val # p.val
    /\ o.val.live /\ p.val.live
    /\ o.lamport = p.lamport

\* C5: when two replicas have added the same id with different values and
\* each imports the other's snapshot, in either order, both list the same
\* single item for that id.  The step is the second import of the exchange:
\* the snapshot comes from a replica that already holds all of the
\* importer's operations.
C5_Convergence ==
  [][\A r \in Replicas :
       /\ Imported(r)
       /\ ret'.arg = Export(doc[Other(r)])
       /\ doc[r].ops \subseteq doc[Other(r)].ops
       => /\ GetAllItems(doc'[r]) = GetAllItems(doc'[Other(r)])
          /\ \A l \in GetAllItems(doc'[r]) : Cardinality(IdsOf(l)) = Len(l)]_vars

\* both replicas hold two concurrent adds of one id and list one item
C5_Witness ==
  /\ Returned("import", "ok")
  /\ doc["A"].ops = doc["B"].ops
  /\ Conflict(doc["A"], doc["B"])
  /\ \A r \in Replicas : \A l \in GetAllItems(doc[r]) : Len(l) = 1

\* a delete that removed an item has returned success, and this step is a
\* successful add of the same id to the same store
AddAfterDelete ==
  /\ Returned("delete", "ok")
  /\ ~Untouched(doc[ret.rep], ret.arg.id)
  /\ ret'.op = "add" /\ ret'.res = "ok"
  /\ ret'.rep = ret.rep /\ ret'.arg.id = ret.arg.id

\* C6: after delete(id) returns success list() contains no item with that
\* id, and an add of the same id that follows yields an item whose four
\* fields are exactly those of the new add.
C6_DeleteThenList ==
  [][/\ ret'.op = "delete" /\ ret'.res = "ok"
        => \A l \in GetAllItems(doc'[ret'.rep]) : ret'.arg.id \notin IdsOf(l)
     /\ AddAfterDelete => OnList(ret'.arg, doc'[ret'.rep])]_vars

\* C6, for items whose timestamp survives the conversion to f64
C6_DeleteThenListExact ==
  [][/\ ret'.op = "delete" /\ ret'.res = "ok"
        => \A l \in GetAllItems(doc'[ret'.rep]) : ret'.arg.id \notin IdsOf(l)
     /\ AddAfterDelete /\ Exact(ret'.arg.timestamp)
        => OnList(ret'.arg, doc'[ret'.rep])]_vars

\* a delete by r of an id its store does not hold, in this step
DeletedAbsent(r) ==
  /\ ret'.op = "delete" /\ ret'.rep = r
  /\ ret'.arg.id \notin LiveKeys(doc[r])

C8_Ordering ==
  /\ \A r \in Replicas : \A l \in GetAllItems(doc[r]) :
       /\ Descending(l)
       /\ Len(l) = Cardinality(LiveKeys(doc[r]))
       /\ IdsOf(l) = LiveKeys(doc[r])
  /\ ret.op = "list" => ret.out \in GetAllItems(doc[ret.rep])

\* items added with timestamps 100, 300 and 200 came back as 300, 200, 100
C8_Witness ==
  /\ Returned("list", "ok")
  /\ ret.out = <<Owl, Cat, Dog>>
  /\ \E a, b \in doc["A"].ops :
       /\ a.key = "dog" /\ b.key = "owl" /\ a.lamport < b.lamport
       /\ \A c \in doc["A"].ops : c.key = "cat" => b.lamport < c.lamport

\* C9: after add(I1) followed by add(I2) with the same id, list() contains
\* exactly one item with that id, and its fields are those of I2.
C9_ReAddReplaces ==
  [][(/\ Returned("add", "ok")
      /\ ret'.op = "add" /\ ret'.res = "ok"
      /\ ret'.rep = ret.rep /\ ret'.arg.id = ret.arg.id)
       => \A l \in GetAllItems(doc'[ret'.rep]) :
            /\ Cardinality({k \in 1..Len(l) : l[k].id = ret'.arg.id}) = 1
            /\ \E k \in 1..Len(l) : l[k] = ret'.arg]_vars

\* C9, for items whose timestamp survives the conversion to f64
C9_ReAddReplacesExact ==
  [][(/\ Returned("add", "ok")
      /\ ret'.op = "add" /\ ret'.res = "ok"
      /\ ret'.rep = ret.rep /\ ret'.arg.id = ret.arg.id
      /\ Exact(ret'.arg.timestamp))
       => \A l \in GetAllItems(doc'[ret'.rep]) :
            /\ Cardinality({k \in 1..Len(l) : l[k].id = ret'.arg.id}) = 1
            /\ \E k \in 1..Len(l) : l[k] = ret'.arg]_vars

\* a step of a mutation by r that returned success
Mutated(r) ==
  /\ ret'.op \in {"add", "delete", "import"}
  /\ ret'.rep = r
  /\ ret'.res = "ok"

\* C10: whenever the backing file exists, its content is a full snapshot of
\* the in-memory document as it stood after the last mutation that
\* returned success: the file changes only when a mutation succeeds, and
\* then to the snapshot of the document.
C10_DiskInvariant ==
  [][\A r \in Replicas :
       file'[r] # NoFile
         => \/ file'[r] = file[r]
            \/ Mutated(r) /\ file'[r] = Export(doc'[r])]_vars

\* SyncManager::new(path) by r, in this step
Constructed(r) == ret'.op = "new" /\ ret'.rep = r

\* C11: constructing a store at a path where no file exists succeeds with
\* an empty document: list() on it returns the empty sequence.
C11_NewWithoutFile ==
  [][\A r \in Replicas : Constructed(r) /\ file[r] = NoFile
       => /\ ret'.res = "ok"
          /\ doc'[r] # NoDoc
          /\ GetAllItems(doc'[r]) = {<<>>}]_vars

\* a store that held items whose write was refused is constructed again at
\* its path, where there is still no file
C11_Witness ==
  /\ Returned("new", "ok")
  /\ file[ret.rep] = NoFile
  /\ doc[ret.rep].peer # FirstPeer[ret.rep]
  /\ GetAllItems(doc[ret.rep]) = {<<>>}

\* C12 as stated: constructing a store at a path whose file exists but
\* whose bytes cannot be decoded fails; it never returns a store with an
\* empty document and does not modify the file.
C12_NewOnUndecodable ==
  [][\A r \in Replicas :
       Constructed(r) /\ file[r] \in {EmptyBytes, CorruptBytes}
         => /\ ret'.res # "ok"
            /\ doc'[r] = NoDoc
            /\ file' = file]_vars

\* C12, amended: the same for a file that is not empty.
C12_NewOnCorrupt ==
  [][\A r \in Replicas : Constructed(r) /\ file[r] = CorruptBytes
       => /\ ret'.res \in {"decode_error", "io_error"}
          /\ doc'[r] = NoDoc
          /\ file' = file]_vars

\* construction has failed on a file that holds part of a snapshot
C12_Witness ==
  /\ Returned("new", "decode_error")
  /\ file[ret.rep] = CorruptBytes
  /\ doc[ret.rep] = NoDoc

\* C13: importSnapshot of malformed bytes returns a merge error, leaves
\* list() as it was and does not rewrite the backing file.
C13_FailedMergeChangesNothing ==
  [][\A r \in Replicas :
       ret'.op = "import" /\ ret'.rep = r /\ ret'.arg.kind # "snap"
         => /\ ret'.res = "decode_error"
            /\ GetAllItems(doc'[r]) = GetAllItems(doc[r])
            /\ doc'[r] = doc[r]
            /\ file'[r] = file[r]]_vars

\* a store that holds an item, written to its file, was handed bytes that
\* are no snapshot
C13_Witness ==
  /\ Returned("import", "decode_error")
  /\ ret.arg = CorruptBytes
  /\ ItemSet(doc[ret.rep]) # {}
  /\ file[ret.rep] = Export(doc[ret.rep])

\* the mutation of the call that returns in this step is in effect in r's
\* document
InEffect(r) ==
  CASE ret'.op = "add" ->
         /\ ret'.arg.id \in LiveKeys(doc'[r])
         /\ Winner(doc'[r], ret'.arg.id).val = ItemMap(ret'.arg)
    [] ret'.op = "delete" -> ret'.arg.id \notin LiveKeys(doc'[r])
    [] ret'.op = "import" -> doc'[r].ops = doc[r].ops \cup ret'.arg.ops

\* add, delete or importSnapshot by r returns an error of its disk write
WriteFailed(r) ==
  /\ ret'.op \in {"add", "delete", "import"}
  /\ ret'.rep = r
  /\ ret'.res = "io_error"

\* C14: if the disk write of add, delete or importSnapshot fails after the
\* in-memory mutation, the operation returns an error, the mutation is in
\* effect in memory and the file still holds the older state.
C14_FailedWriteKeepsMutation ==
  [][\A r \in Replicas : WriteFailed(r)
       => InEffect(r) /\ file'[r] = file[r]]_vars

\* C14, as far as memory goes: the mutation is in effect, and the file
\* holds the older state or what a torn write left of it
C14_FailedWriteInMemory ==
  [][\A r \in Replicas : WriteFailed(r)
       => /\ InEffect(r)
          /\ file'[r] \in {file[r], EmptyBytes, CorruptBytes}]_vars

\* the value fs::write's error gives the caller of save_to_disk:
\* e.to_string() of an io::Error (sync.rs:53)
WriteError == SaveResult("refused")

\* C15: the error value returned when persistence fails after a successful
\* in-memory mutation differs from the value returned for a merge error, a
\* file-read error, a failed init and a missing manager, so the value alone
\* tells the caller that memory changed but disk did not.
C15_DistinctPersistenceError ==
  /\ ret.op \in {"add", "delete", "import"}
  /\ ret.cause \in {"uninit", "read", "merge"}
  => ret.res # WriteError

\* the errors that are told apart: a missing manager and a failed merge
C15_DistinctOtherErrors ==
  /\ ret.cause = "uninit" <=> ret.res = NotInitialized
  /\ ret.cause = "merge" <=> ret.res = "decode_error"
  /\ ret.cause \in {"mkdir", "read", "write"} <=> ret.res = WriteError

\* C16: add rejects an item whose id is the empty string, so every entry
\* list() returns has a non-empty id.
C16_NonEmptyIds ==
  /\ \A r \in Replicas : \A l \in GetAllItems(doc[r]) :
       \A k \in 1..Len(l) : l[k].id # ""
  /\ ret.op = "add" /\ ret.arg.id = "" => ret.res # "ok"

\* C17: before any successful init, add, delete, list and importSnapshot
\* called through the commands fail as not initialized and touch neither a
\* document nor a file; importSnapshot does not read its source file.
C17_NotInitialized ==
  [][guard = NoPath /\ ret'.op # "init"
       => /\ ret'.res = NotInitialized
          /\ ret'.op \in {"add", "delete", "list", "import"}
          /\ acc' = {}
          /\ UNCHANGED <<doc, file, guard>>]_vars

\* importSnapshot was called with no manager installed
C17_Witness ==
  /\ guard = NoPath
  /\ ret.op = "import" /\ ret.res = NotInitialized
  /\ acc = {}
  /\ \A r \in Replicas : doc[r] = NoDoc

\* at most one manager exists, the one the singleton holds
OneStore == \A r \in Replicas : doc[r] # NoDoc <=> r = guard

\* C18: the singleton holds at most one store and init replaces it: the
\* store it installs is hydrated from the file of its path, and from then
\* on the commands write that file only; the file of the path before
\* receives no further write.
C18_InitReplaces ==
  /\ []OneStore
  /\ [][/\ \A r \in Replicas : r # guard' => file'[r] = file[r]
        /\ \A a \in acc' : a.kind = "write" => a.path = guard'
        /\ ret'.op = "init" /\ IsOk(ret'.res)
             => /\ guard' = Target(env, ret'.arg.path)
                /\ ItemSet(doc'[guard']) = ItemSet(Decoded(file'[guard']))]_vars

\* after init(A) and an add, init(B) installed a second store, which has
\* imported and written the items of A's file
C18_Witness ==
  /\ ~env
  /\ guard = "B"
  /\ ret.op = "import" /\ IsOk(ret.res) /\ ret.rep = "B"
  /\ ItemSet(Decoded(file["A"])) # {}
  /\ file["B"] = Export(doc["B"])
  /\ ItemSet(doc["B"]) = ItemSet(Decoded(file["A"]))
  /\ doc["A"] = NoDoc

\* C19: when SCREEN_INU_TEST_DIR is set, init ignores the path of the
\* caller: it creates the override directory if missing, backs the store
\* with history.crdt inside it, and neither creates a directory for, reads
\* nor writes the path of the caller, in this init and in the operations
\* that follow it.
C19_TestModeOverride ==
  /\ [](env => guard \in {NoPath, TestPath})
  /\ [][env =>
          /\ \A r \in Replicas \ {TestPath} : file'[r] = file[r]
          /\ \A a \in acc' : a.kind # "read" => a.path = TestPath
          /\ ret'.op = "init" => \A a \in acc' : a.path = TestPath
          /\ ret'.op = "init" /\ IsOk(ret'.res)
               => /\ ret'.res = InitializedTestMode
                  /\ guard' = TestPath
                  /\ file'[TestPath] # NoDir]_vars

\* init was called with the path A in test mode: it made the override
\* directory and left A's directory missing
C19_Witness ==
  /\ env
  /\ ret.op = "init" /\ ret.arg.path = "A" /\ ret.res = InitializedTestMode
  /\ guard = TestPath
  /\ acc = {Access(TestPath, "mkdir"), Access(TestPath, "exists")}
  /\ file["A"] = NoDir
  /\ file[TestPath] = NoFile

\* at most one thread is in a command, and it holds the mutex
MutualExclusion ==
  /\ \A t, u \in Threads : pc[t].at # "idle" /\ pc[u].at # "idle" => t = u
  /\ \A t \in Threads : pc[t].at # "idle" => lock = t
  /\ lock # NoThread => pc[lock].at # "idle"

\* C20: at most one call at a time is between acquiring the lock and
\* returning, and the lock is held across the whole operation, its file
\* write included: while a command stands between its change of the
\* document and its write, the only step taken is that write.
C20_Serialized ==
  /\ []MutualExclusion
  /\ [][\A t \in Threads : pc[t].at = "save"
          => /\ pc'[t].at = "idle"
             /\ ret'.op = pc[t].op
             /\ doc' = doc]_vars

\* a thread holds the mutex between its change of the document and its
\* write: memory is ahead of the file
C20_Witness ==
  /\ \E t \in Threads :
       /\ pc[t].at = "save" /\ pc[t].op = "add"
       /\ lock = t
  /\ guard # NoPath
  /\ Exists(file[guard])
  /\ file[guard] # Export(doc[guard])

\* list() by r, in this step
Listed(r) == ret'.op = "list" /\ ret'.rep = r

\* the items of a result of list(), in no order
ItemsOf(l) == {l[k] : k \in 1..Len(l)}

\* C21: list() is read-only: it changes neither the document nor the
\* backing file and does not create the file when it is absent; two
\* consecutive list() calls return the same items.
C21_ListReadOnly ==
  [][\A r \in Replicas : Listed(r)
       => /\ doc' = doc
          /\ file' = file
          /\ ret'.res = "ok"
          /\ ItemsOf(ret'.out) = ItemSet(doc[r])
          /\ ret.op = "list" /\ ret.rep = r
               => ItemsOf(ret'.out) = ItemsOf(ret.out)]_vars

\* list() returned an item of a store whose file does not exist, its
\* write having been refused
C21_Witness ==
  /\ ret.op = "list" /\ ret.res = "ok"
  /\ Len(ret.out) > 0
  /\ file[ret.rep] = NoFile

\* C22: a successful importSnapshot persists the merged state: a fresh
\* store constructed at the importer's path lists what the importer listed
\* in memory, local and imported items together.
C22_ImportPersists ==
  [][\A r \in Replicas :
       /\ ret.op = "import" /\ ret.res = "ok" /\ ret.rep = r
       /\ Constructed(r) /\ ret'.res = "ok"
       => /\ GetAllItems(doc'[r]) = GetAllItems(doc[r])
          /\ doc'[r].ops = doc[r].ops
          /\ file[r] = Export(doc[r])]_vars

\* a store constructed from its file lists an item of its own next to one
\* it had imported from the other replica
C22_Witness ==
  /\ Returned("new", "ok")
  /\ doc[ret.rep].peer # FirstPeer[ret.rep]
  /\ \E o, p \in doc[ret.rep].ops :
       /\ o.peer = FirstPeer[ret.rep] /\ p.peer = FirstPeer[Other(ret.rep)]
       /\ o.key # p.key
       /\ {o.key, p.key} \subseteq LiveKeys(doc[ret.rep])
  /\ file[ret.rep] = Export(doc[ret.rep])

\* memory and file of r disagree
Gap(r) == file[r] # Export(doc[r])

\* C27: after a mutation whose disk write failed, the next add, delete or
\* importSnapshot whose disk write succeeds leaves the file holding a
\* snapshot of the entire document, the unpersisted mutation included: a
\* store reconstructed from the file lists the same items as memory.
C27_GapCloses ==
  [][\A r \in Replicas : Gap(r) /\ Mutated(r)
       => /\ file'[r] = Export(doc'[r])
          /\ doc[r].ops \subseteq file'[r].ops
          /\ LoadResult(file'[r]) = "ok"
          /\ GetAllItems(LoadFromDisk(NoDoc, file'[r])) = GetAllItems(doc'[r])]_vars

\* an add was written whose document holds an operation that had not
\* reached the file before
C27_Witness ==
  /\ Returned("add", "ok")
  /\ Cardinality(doc[ret.rep].ops) = 2
  /\ \A o \in doc[ret.rep].ops : o.peer = doc[ret.rep].peer
  /\ doc[ret.rep].peer = FirstPeer[ret.rep]
  /\ file[ret.rep] = Export(doc[ret.rep])

\* C30: constructing a store at a path whose file exists but has zero
\* length yields an empty document: the import is skipped, no
\* initialization error is raised and list() returns the empty sequence.
C30_NewOnEmptyFile ==
  [][\A r \in Replicas : Constructed(r) /\ file[r] = EmptyBytes
       => /\ ret'.res # "decode_error"
          /\ ret'.res = "ok" => doc'[r] # NoDoc /\ GetAllItems(doc'[r]) = {<<>>}
          /\ ret'.res # "ok" => ret'.res = "io_error" /\ doc'[r] = NoDoc
          /\ file' = file]_vars

\* a store was constructed on a file that a torn write left empty
C30_Witness ==
  /\ Returned("new", "ok")
  /\ file[ret.rep] = EmptyBytes
  /\ doc[ret.rep] # NoDoc
  /\ GetAllItems(doc[ret.rep]) = {<<>>}

\* C23: each entry of the history container has an id field equal to the
\* key it is stored under, and list() reports that key as the id of the
\* item.
C23_KeyIsId ==
  \A r \in Replicas :
    /\ \A o \in doc[r].ops : o.val.live => o.val.id = o.key
    /\ \A k \in LiveKeys(doc[r]) :
         /\ ReadItem(doc[r], k).id = k
         /\ Winner(doc[r], k).val.id = k

\* a store lists an entry it has imported, under the key the other
\* replica wrote it with
C23_Witness ==
  /\ Returned("import", "ok")
  /\ \E o \in doc[ret.rep].ops :
       /\ o.peer # doc[ret.rep].peer
       /\ o.key \in LiveKeys(doc[ret.rep])
       /\ Winner(doc[ret.rep], o.key) = o
       /\ o.val.id = o.key
       /\ OnList(ReadItem(doc[ret.rep], o.key), doc[ret.rep])

\* C24: list() contains at most one item per id, also after importing
\* snapshots of replicas that added the same id concurrently.
C24_UniqueIds ==
  \A r \in Replicas : \A l \in GetAllItems(doc[r]) :
    \A i, j \in 1..Len(l) : l[i].id = l[j].id => i = j

\* two live inserts of one key by different peers, with equal lamport
ConcurrentAdds(d, o, p) ==
  /\ {o, p} \subseteq d.ops
  /\ o.key = p.key /\ o.peer # p.peer /\ o.lamport = p.lamport
  /\ o.val.live /\ p.val.live

\* a store has imported a concurrent add of an id it had added itself,
\* next to an item of another id
C24_Witness ==
  /\ Returned("import", "ok")
  /\ \E o, p \in doc[ret.rep].ops : ConcurrentAdds(doc[ret.rep], o, p)
  /\ Cardinality(doc[ret.rep].ops) = 3
  /\ \A l \in GetAllItems(doc[ret.rep]) : Len(l) = 2

\* the item list() returns for the insert o
ItemOf(o) == HistoryItem(o.key, o.val.text, F64ToI64(o.val.timestamp), o.val.lang)

\* C25: when two replicas concurrently add the same id with different
\* values and their snapshots are merged, text, timestamp and lang of the
\* surviving item come from one and the same add.
C25_WholeContainerWins ==
  \A r \in Replicas : \A item \in ItemSet(doc[r]) :
    \E o \in KeyOps(doc[r], item.id) : o.val.live /\ item = ItemOf(o)

\* a store holds two concurrent adds of one id that differ in text and
\* lang, and lists one of them
C25_Witness ==
  /\ Returned("import", "ok")
  /\ \E o, p \in doc[ret.rep].ops :
       /\ ConcurrentAdds(doc[ret.rep], o, p)
       /\ o.val.text # p.val.text /\ o.val.lang # p.val.lang
       /\ ItemSet(doc[ret.rep]) = {ItemOf(o)}

\* the operations on key k include a delete that follows all others
DeletedLast(d, k) ==
  \E del \in KeyOps(d, k) :
    /\ ~del.val.live
    /\ \A o \in KeyOps(d, k) \ {del} : o.lamport < del.lamport

\* C26: if B imported a state containing X and then deleted X, then after
\* A, still holding X, imports B's snapshot, A lists X no more; and
\* importing A's older snapshot, which contains X, into B does not bring X
\* back.
C26_DeletesPropagate ==
  [][\A r \in Replicas : Imported(r) =>
       \A k \in Ids :
         /\ ( /\ k \in LiveKeys(doc[r])
              /\ KeyOps(doc[r], k) \subseteq ret'.arg.ops
              /\ DeletedLast(Decoded(ret'.arg), k) )
            => k \notin LiveKeys(doc'[r])
         /\ ( /\ DeletedLast(doc[r], k)
              /\ KeyOps(Decoded(ret'.arg), k) # {}
              /\ KeyOps(Decoded(ret'.arg), k) \subseteq doc[r].ops )
            => k \notin LiveKeys(doc'[r])]_vars

\* a store that held an item has imported the snapshot of a replica that
\* had imported the item and deleted it
C26_Witness ==
  /\ Returned("import", "ok")
  /\ \E a, del \in doc[ret.rep].ops :
       /\ KeyOps(doc[ret.rep], a.key) = {a, del}
       /\ a.val.live /\ a.peer = doc[ret.rep].peer
       /\ ~del.val.live /\ del.peer # doc[ret.rep].peer
       /\ del.lamport > a.lamport
       /\ del \in ret.arg.ops
       /\ a.key \notin LiveKeys(doc[ret.rep])

\* C29: an init that fails (directory, read or undecodable snapshot)
\* leaves the singleton as it was: the store installed before, if any,
\* keeps its document and its file, and the next list() answers from it;
\* if none was installed the next list() fails as not initialized.
C29_FailedInitKeepsHolder ==
  [][/\ ret'.op = "init" /\ ~IsOk(ret'.res)
          => /\ guard' = guard /\ doc' = doc /\ file' = file
             /\ ret'.cause \in {"mkdir", "read", "merge"}
     /\ ret.op = "init" /\ ~IsOk(ret.res) /\ ret'.op = "list"
          => IF guard = NoPath THEN ret'.res = NotInitialized
             ELSE /\ ret'.res = "ok"
                  /\ ItemsOf(ret'.out) = ItemSet(doc[guard])]_vars

\* an init has failed on an undecodable file while a store with an item
\* was installed
C29_Witness ==
  /\ ret.op = "init" /\ ~IsOk(ret.res) /\ ret.cause = "merge"
  /\ guard # NoPath
  /\ ItemSet(doc[guard]) # {}

\* no command is between its lock and its return
AllIdle == \A t \in Threads : pc[t].at = "idle"

\* the ids the add calls have inserted into the store of the singleton
Added == {o.key : o \in doc[guard].ops}

HasStamp(d, item) ==
  \A l \in GetAllItems(d) :
    \E k \in 1..Len(l) : l[k].id = item.id /\ l[k].timestamp = item.timestamp

\* C31: an item added with timestamp t, for every int64 t, is returned by
\* list() with timestamp exactly t, and so it is by a store opened on the
\* file the add wrote.
C31_TimestampFidelity ==
  Returned("add", "ok")
    => /\ HasStamp(doc[ret.rep], ret.arg)
       /\ HasStamp(LoadFromDisk(NoDoc, file[ret.rep]), ret.arg)

\* |t| <= 2^53, or t is an end of the int64 range
KeptByF64(t) ==
  \/ ~MagLess(TwoPow(MantissaBits), t)
  \/ t \in {I64Max, I64Min}

\* C31 for the timestamps of KeptByF64
C31_TimestampFidelityKept ==
  Returned("add", "ok") /\ KeptByF64(ret.arg.timestamp)
    => /\ HasStamp(doc[ret.rep], ret.arg)
       /\ HasStamp(LoadFromDisk(NoDoc, file[ret.rep]), ret.arg)

\* an item with timestamp 2^63 - 1 was added and is listed with it
C31_KeptWitness ==
  /\ Returned("add", "ok")
  /\ ret.arg.timestamp = I64Max
  /\ HasStamp(doc[ret.rep], ret.arg)

\* thread t has a call that has not returned
Pending(t) == calls[t] # <<>> \/ pc[t].at # "idle"

\* a command of thread t returns in this step
Returns(t) ==
  \/ pc[t].at = "save" /\ pc'[t].at = "idle"
  \/ calls'[t] # calls[t] /\ pc'[t].at = "idle"

\* C32: every command releases the mutex on every return path (success,
\* not initialized, read, write and merge error, failed init), so of the
\* finitely many calls of the threads every one returns, and a mutex that
\* is held is free again later.
C32_LockReleased ==
  /\ [][\A t \in Threads : Returns(t)
          => /\ lock' = NoThread
             /\ ret'.cause \in {"none", "uninit", "mkdir", "read", "merge", "write"}]_vars
  /\ \A t \in Threads : Pending(t) ~> ~Pending(t)
  /\ (lock # NoThread) ~> (lock = NoThread)

\* all calls have returned, the mutex is free, and the last return was a
\* write error of a command that found the manager
C32_Witness ==
  /\ \A t \in Threads : ~Pending(t)
  /\ lock = NoThread
  /\ guard # NoPath
  /\ ret.cause = "write"

\* a thread is blocked in lock() while the other holds the mutex, about to
\* write
C32_Blocked ==
  \E t, u \in Threads :
    /\ pc[t].at = "save" /\ lock = t
    /\ u # t /\ calls[u] # <<>>

\* the result of image img at index i when it is processed alone
Alone(i, img) ==
  IF img = NotBase64 THEN BatchOcrResult(i, None, Some(DecodeError))
  ELSE BatchOcrResult(i, Some(TextOf(img)), None)

\* C33: perform_batch_ocr returns one result per image, in the order of
\* the images, result i with index i, and the text or error of result i
\* is the outcome of image i alone.
C33_BatchResults ==
  batch.returned
    => /\ Len(batch.results) = Len(images)
       /\ \A i \in DOMAIN images : batch.results[i] = Alone(i - 1, images[i])

\* C33 without the outcome: one result per image, in order, with its
\* index, holding a text or an error, and the decode error where the image
\* is no base64
C33_BatchShape ==
  batch.returned
    => /\ Len(batch.results) = Len(images)
       /\ \A i \in DOMAIN images :
            /\ batch.results[i].index = i - 1
            /\ (batch.results[i].text = None) # (batch.results[i].error = None)
            /\ images[i] = NotBase64 <=> batch.results[i].error = Some(DecodeError)

\* C34: the service a translate_offline call translates with, after its
\* get_or_init_translator returned, is one whose current_model matches the
\* model name opus-mt-src-tgt of the call, also when another thread calls
\* with another language pair.
C34_UsesRequestedModel ==
  \A t \in Threads :
    tpc[t].at = "done" /\ tpc[t].res = "ok"
      => Contains(tpc[t].used, tpc[t].name)

\* C34 with "matches" read as equality: the service is the one loaded
\* from the directory of the model of the call
C34_ExactModel ==
  \A t \in Threads :
    tpc[t].at = "done" /\ tpc[t].res = "ok"
      => tpc[t].used = ModelPath(tpc[t].name)

\* C34 for the model that get_or_init_translator left loaded: the name
\* of the call is part of its current_model while the call has not gone on
C34_AfterGetOrInit ==
  [][\A t \in Threads :
       tpc'[t].at = "ready" /\ tpc'[t] # tpc[t]
         => Contains(instance', tpc'[t].name)]_vars

====
